---- MODULE Spec2Model ----
(***************************************************************************)
(* Job broker of src/server.py: the module-level stores JOBS, PENDING and *)
(* RESULTS, and the request handlers enqueue, poll, ack and result.       *)
(* The handlers are plain `def` endpoints, which the server runs on a     *)
(* pool of worker threads with no lock around the stores, so a handler is *)
(* modelled as the sequence of its accesses to the shared stores, one     *)
(* step per access, and the steps of different threads interleave: the    *)
(* interpreter may switch threads between any two bytecodes, so between   *)
(* the iterator step of `for i, jid in enumerate(PENDING)` and            *)
(* `PENDING.pop(i)`.  A single dict or list operation is one step.        *)
(***************************************************************************)
EXTENDS Integers, Sequences, FiniteSets

\* ---------------------------------------------------------------- bounds
\* Number of identifiers uuid4 hands out (Enqueue calls that get that far).
MaxJobs == 2
\* Number of Ack requests accepted.
MaxAcks == 2
\* Largest value of the clock int(time.time()) reads.
MaxTime == 1

\* ------------------------------------------------------------ input sets
Threads == {1, 2}
Machines == {"A", "B"}
\* (command, params) of an EnqueueReq; params is a canonical key/value list.
\* The broker never reads either, so one value stands for all.
EnqueueBodies == { <<"rm", <<"f", "x">>>> }
\* Values of the environment variable SHARED_SECRET: a text, and bytes that
\* are no UTF-8 ("+0xFF" stands for the byte), which os.environ decodes to
\* a str holding a lone surrogate.
Secrets == {"s3cret", "s3cret+0xFF"}
\* job_id path/body values: every identifier Enqueue can issue, and 0 for
\* an identifier that was never issued.
JobIds == 0..MaxJobs
\* (status, stdout, stderr, took_ms) of an AckReq.
AckBodies == { <<"ok", "out", "", 5>>, <<"error", "", "boom", 0>> }
\* Values of the X-Admin-Key header ("None": header absent).
AdminKeys == {"None", "k", "bad"}

None == [null |-> TRUE]
NoReq == [op |-> "none"]

VARIABLES
  SHARED_SECRET,     \* server.py:7
  ADMIN_API_KEY,     \* server.py:8
  ALLOWED_MACHINES,  \* server.py:9
  JOBS,              \* server.py:24  job id -> job
  PENDING,           \* server.py:25  list of job ids
  RESULTS,           \* server.py:26  job id -> result
  now,               \* time.time(), whole seconds
  nextId,            \* number of identifiers uuid4 has handed out
  pc,                \* per thread: the handler statement it is at
  req,               \* per thread: the request it serves
  it,                \* per thread: position of poll's list iterator
  i,                 \* per thread: poll's loop variable i
  jid,               \* per thread: local jid
  job,               \* per thread: local job
  resp,              \* per thread: the response it sent, kept until the
                     \* next request arrives at the server
  appended,          \* history: identifiers in the order PENDING.append ran
  accepted,          \* history: the identifiers Enqueue returned, in order
  polled,            \* history: the jobs Poll returned, in return order
  ackLog,            \* history: the Ack requests recorded, in write order
  ov,                \* history: per thread, the threads whose request
                     \* overlapped its request
  seen,              \* history: per thread, how many entries PENDING held
                     \* for its request's machine when the request arrived
  hist               \* history: the latest requests that ran one after
                     \* another with no other request overlapping them

vars == <<SHARED_SECRET, ADMIN_API_KEY, ALLOWED_MACHINES, JOBS, PENDING,
          RESULTS, now, nextId, pc, req, it, i, jid, job, resp,
          appended, accepted, polled, ackLog, ov, seen, hist>>

config == <<SHARED_SECRET, ADMIN_API_KEY, ALLOWED_MACHINES>>
stores == <<JOBS, PENDING, RESULTS>>
locals == <<it, i, jid, job>>

\* ------------------------------------------------------- pure functions
\* hmac.new(SHARED_SECRET, b, sha256).hexdigest(): an ideal keyed tag, equal
\* for two inputs exactly when key and bytes are equal.
HmacSha256Hex(key, b) == <<"hmac-sha256", key, b>>

\* SHARED_SECRET.encode() succeeds: the str holds no lone surrogate.
Encodes(key) == key # "s3cret+0xFF"

\* sign_payload(b) raises UnicodeEncodeError, at SHARED_SECRET.encode().
SignRaises == ~Encodes(SHARED_SECRET)

\* What sign_payload(b) returns when it does not raise.
sign_payload(b) == HmacSha256Hex(SHARED_SECRET, b)

\* A header value is decoded as latin-1, so it may hold characters outside
\* ASCII; a hexdigest never does.
IsAscii(sig) == sig # <<"tag-with-non-ascii-char">>

\* verify: sign_payload(b) may raise; hmac.compare_digest(sign_payload(b),
\* sig) raises TypeError when a str argument is not ASCII, else it compares;
\* "HTTPException" is the 401 of line 18 and "pass" the return of verify.
verify(sig, b) ==
  IF SignRaises THEN "UnicodeEncodeError"
  ELSE IF ~IsAscii(sig) THEN "TypeError"
  ELSE IF sign_payload(b) = sig THEN "pass"
  ELSE "HTTPException"

\* Mutant of require_admin: the key is never compared.
require_adminOpen(k) == TRUE

\* require_admin passes (TRUE) or raises 401 (FALSE).
require_admin(k) == ~(ADMIN_API_KEY # "" /\ k # ADMIN_API_KEY)

\* Mutant of NotAllowed: the allow-list is never consulted.
NotAllowedNever(m) == FALSE

\* `ALLOWED_MACHINES and machine_id not in ALLOWED_MACHINES`
NotAllowed(m) == ALLOWED_MACHINES # {} /\ m \notin ALLOWED_MACHINES

\* json.dumps(d, separators=(',',':')).encode(): keys in insertion order.
DumpJob(j) == <<"id", j.id, "machine_id", j.machine_id, "command", j.command,
                "params", j.params, "ts", j.ts>>
DumpPollReq(r) == <<"machine_id", r.machine_id, "capabilities", r.capabilities>>
DumpAckReq(r) == <<"job_id", r.job_id, "status", r.status, "stdout", r.stdout,
                   "stderr", r.stderr, "took_ms", r.took_ms>>

\* The X-Signature values a client can send with body bytes b: the tag under
\* the shared secret, the tag under another key, a string that is no tag,
\* and a tag with one byte replaced by a byte above 127.
Signatures(b) == { HmacSha256Hex(SHARED_SECRET, b),
                   HmacSha256Hex("other", b), <<"not-a-tag">>,
                   <<"tag-with-non-ascii-char">> }

\* Mutant of ListPop: pop() takes the head whatever k is.
ListPopHead(s, k) == Tail(s)

\* list.pop(i) on a list of length > i (0-based i).
ListPop(s, k) == SubSeq(s, 1, k) \o SubSeq(s, k + 2, Len(s))

\* Mutant of Matches: the machine test is dropped.
MatchesAny(j, m) == TRUE

\* job["machine_id"] == req.machine_id
Matches(j, m) == j.machine_id = m

HTTPException(code, detail) == [status |-> code, detail |-> detail]
ServerError(exc) == [status |-> 500, detail |-> exc]

Active(t) == pc[t] \notin {"idle", "done"}
OthersActive(t) == {u \in Threads \ {t} : Active(u)}

\* ------------------------------------------------------------------ Init
Init ==
  /\ SHARED_SECRET = "s3cret"
  /\ ADMIN_API_KEY \in {"", "k"}
  /\ ALLOWED_MACHINES \in {{}, {"A"}}
  /\ JOBS = << >>
  /\ PENDING = << >>
  /\ RESULTS = << >>
  /\ now = 0
  /\ nextId = 0
  /\ pc = [t \in Threads |-> "idle"]
  /\ req = [t \in Threads |-> NoReq]
  /\ it = [t \in Threads |-> 0]
  /\ i = [t \in Threads |-> 0]
  /\ jid = [t \in Threads |-> 0]
  /\ job = [t \in Threads |-> None]
  /\ resp = [t \in Threads |-> None]
  /\ appended = << >>
  /\ accepted = << >>
  /\ polled = << >>
  /\ ackLog = << >>
  /\ ov = [t \in Threads |-> {}]
  /\ seen = [t \in Threads |-> 0]
  /\ hist = << >>

\* ------------------------------------------------------ request plumbing
\* Mutant of DictSet: the assignment is lost.
DictSetLost(d, k, v) == d

\* dict[k] = v
DictSet(d, k, v) == [x \in (DOMAIN d) \cup {k} |-> IF x = k THEN v ELSE d[x]]

Ok(body) == [status |-> 200, body |-> body]

\* A Poll request whose signature verifies.
SignedPoll(r) ==
  r.op = "poll" /\ verify(r.x_signature, DumpPollReq(r)) = "pass"

\* The entries of PENDING whose job targets machine m.
EntriesFor(m) ==
  {k \in 1..Len(PENDING) :
     PENDING[k] \in DOMAIN JOBS /\ JOBS[PENDING[k]].machine_id = m}

\* How many entries PENDING holds for the machine request r names.
PendingFor(r) ==
  IF r.op \in {"enqueue", "poll"}
  THEN Cardinality(EntriesFor(r.machine_id)) ELSE 0

\* The record of a finished request: the request, the response, the number
\* of entries for its machine on arrival, and PENDING after it.
Entry(r, out, before, after) ==
  [req |-> r, resp |-> out, before |-> before, after |-> after]

\* hist keeps the latest requests that ran one after another, none
\* overlapping any other request, as long as they read: an accepted
\* Enqueue for m, a signed Poll for m, a signed Poll for m.
NextHist(e, overlapped) ==
  IF overlapped THEN << >>
  ELSE IF e.req.op = "enqueue" /\ e.resp.status = 200 THEN << e >>
  ELSE IF /\ Len(hist) \in {1, 2}
          /\ SignedPoll(e.req)
          /\ e.req.machine_id = hist[1].req.machine_id
       THEN Append(hist, e)
  ELSE << >>

\* f with the entries of the threads whose response is out reset to d.
Cleared(f, d) == [u \in Threads |-> IF pc[u] = "done" THEN d ELSE f[u]]

\* The pool's threads that run no handler.
Free == {u \in Threads : ~Active(u)}

\* Request r arrives and the pool hands it to its first free thread t, which
\* goes to statement l with response out (None while the handler runs).  The
\* responses sent earlier are dropped; the requests running now overlap r.
Arrive(t, r, l, out) ==
  /\ t \in Free
  /\ \A u \in Free : t <= u
  /\ pc' = [Cleared(pc, "idle") EXCEPT ![t] = l]
  /\ req' = [Cleared(req, NoReq) EXCEPT ![t] = r]
  /\ resp' = [Cleared(resp, None) EXCEPT ![t] = out]
  /\ seen' = [Cleared(seen, 0) EXCEPT ![t] = PendingFor(r)]
  /\ ov' = [u \in Threads |->
              IF u = t THEN OthersActive(t)
              ELSE IF Active(u) THEN ov[u] \cup {t} ELSE {}]
  /\ hist' = IF l = "done"
             THEN NextHist(Entry(r, out, PendingFor(r), PENDING'),
                           OthersActive(t) # {})
             ELSE IF OthersActive(t) # {} THEN << >> ELSE hist

\* Thread t sends response out and its handler's frame is gone.
Leave(t, out) ==
  /\ pc' = [pc EXCEPT ![t] = "done"]
  /\ resp' = [resp EXCEPT ![t] = out]
  /\ it' = [it EXCEPT ![t] = 0]
  /\ i' = [i EXCEPT ![t] = 0]
  /\ jid' = [jid EXCEPT ![t] = 0]
  /\ job' = [job EXCEPT ![t] = None]
  /\ hist' = NextHist(Entry(req[t], out, seen[t], PENDING'), ov[t] # {})
  /\ UNCHANGED <<req, seen, ov>>

\* ---------------------------------------------------------------- enqueue
\* server.py:51-56: the checks, then jid and job are built.
EnqueueBegin(t) ==
  \E m \in Machines, body \in EnqueueBodies, k \in AdminKeys :
    LET r == [op |-> "enqueue", machine_id |-> m, command |-> body[1],
              params |-> body[2], x_admin_key |-> k]
    IN /\ UNCHANGED <<config, stores, now, appended, accepted, polled,
                      ackLog>>
       /\ IF ~require_admin(k)
          THEN /\ Arrive(t, r, "done", HTTPException(401, "Bad admin key"))
               /\ UNCHANGED <<nextId, locals>>
          ELSE IF NotAllowed(m)
          THEN /\ Arrive(t, r, "done", HTTPException(403, "Machine not allowed"))
               /\ UNCHANGED <<nextId, locals>>
          ELSE /\ nextId < MaxJobs
               /\ nextId' = nextId + 1
               /\ jid' = [jid EXCEPT ![t] = nextId + 1]
               /\ job' = [job EXCEPT ![t] =
                           [id |-> nextId + 1, machine_id |-> m,
                            command |-> body[1], params |-> body[2],
                            ts |-> now]]
               /\ Arrive(t, r, "enq_store", None)
               /\ UNCHANGED <<it, i>>

\* server.py:57: JOBS[jid] = job
EnqueueStore(t) ==
  /\ pc[t] = "enq_store"
  /\ JOBS' = DictSet(JOBS, jid[t], job[t])
  /\ pc' = [pc EXCEPT ![t] = "enq_append"]
  /\ UNCHANGED <<config, PENDING, RESULTS, now, nextId, req, locals, resp,
                 appended, accepted, polled, ackLog, ov, seen, hist>>

\* server.py:58-60: PENDING.append(jid), then sign_payload, which raises or
\* gives the tag of the response.
EnqueueAppend(t) ==
  /\ pc[t] = "enq_append"
  /\ PENDING' = Append(PENDING, jid[t])
  /\ appended' = Append(appended, jid[t])
  /\ IF SignRaises
     THEN /\ accepted' = accepted
          /\ Leave(t, ServerError("UnicodeEncodeError"))
     ELSE /\ accepted' = Append(accepted, jid[t])
          /\ Leave(t, Ok([ok |-> TRUE, job_id |-> jid[t],
                          sig |-> sign_payload(DumpJob(job[t]))]))
  /\ UNCHANGED <<config, JOBS, RESULTS, now, nextId, polled, ackLog>>

\* ------------------------------------------------------------------- poll
\* server.py:64-68: verify, the allow-list, then iter(PENDING).
PollBegin(t) ==
  \E m \in Machines :
    \E sig \in Signatures(DumpPollReq([machine_id |-> m,
                                       capabilities |-> << >>])) :
      LET r == [op |-> "poll", machine_id |-> m, capabilities |-> << >>,
                x_signature |-> sig]
      IN /\ UNCHANGED <<config, stores, now, nextId, appended, accepted,
                        polled, ackLog>>
         /\ IF verify(sig, DumpPollReq(r))
               \in {"UnicodeEncodeError", "TypeError"}
            THEN /\ Arrive(t, r, "done",
                           ServerError(verify(sig, DumpPollReq(r))))
                 /\ UNCHANGED locals
            ELSE IF verify(sig, DumpPollReq(r)) = "HTTPException"
            THEN /\ Arrive(t, r, "done", HTTPException(401, "Bad signature"))
                 /\ UNCHANGED locals
            ELSE IF NotAllowed(m)
            THEN /\ Arrive(t, r, "done", Ok([job |-> None]))
                 /\ UNCHANGED locals
            ELSE /\ it' = [it EXCEPT ![t] = 0]
                 /\ Arrive(t, r, "poll_iter", None)
                 /\ UNCHANGED <<i, jid, job>>

\* server.py:68: the list iterator yields PENDING[it] and steps, or the
\* loop ends and line 74 returns no job.
PollIter(t) ==
  /\ pc[t] = "poll_iter"
  /\ UNCHANGED <<config, stores, now, nextId, appended, accepted, polled,
                 ackLog>>
  /\ IF it[t] < Len(PENDING)
     THEN /\ i' = [i EXCEPT ![t] = it[t]]
          /\ jid' = [jid EXCEPT ![t] = PENDING[it[t] + 1]]
          /\ it' = [it EXCEPT ![t] = it[t] + 1]
          /\ pc' = [pc EXCEPT ![t] = "poll_lookup"]
          /\ UNCHANGED <<job, req, resp, ov, seen, hist>>
     ELSE Leave(t, Ok([job |-> None]))

\* server.py:69-70: job = JOBS[jid], then the machine test.
PollLookup(t) ==
  /\ pc[t] = "poll_lookup"
  /\ UNCHANGED <<config, stores, now, nextId, appended, accepted, polled,
                 ackLog>>
  /\ IF jid[t] \in DOMAIN JOBS
     THEN /\ job' = [job EXCEPT ![t] = JOBS[jid[t]]]
          /\ pc' = [pc EXCEPT ![t] =
                      IF Matches(JOBS[jid[t]], req[t].machine_id)
                      THEN "poll_pop" ELSE "poll_iter"]
          /\ UNCHANGED <<it, i, jid, req, resp, ov, seen, hist>>
     ELSE Leave(t, ServerError("KeyError"))

\* server.py:71-73: PENDING.pop(i), then the job and its signature.
PollPop(t) ==
  /\ pc[t] = "poll_pop"
  /\ UNCHANGED <<config, JOBS, RESULTS, now, nextId, appended, accepted,
                 ackLog>>
  /\ IF i[t] < Len(PENDING)
     THEN /\ PENDING' = ListPop(PENDING, i[t])
          /\ IF SignRaises
             THEN /\ polled' = polled
                  /\ Leave(t, ServerError("UnicodeEncodeError"))
             ELSE /\ polled' = Append(polled,
                                      [machine_id |-> req[t].machine_id,
                                       job |-> job[t]])
                  /\ Leave(t, Ok([job |-> job[t],
                                  sig |-> sign_payload(DumpJob(job[t]))]))
     ELSE /\ UNCHANGED <<PENDING, polled>>
          /\ Leave(t, ServerError("IndexError"))

\* -------------------------------------------------------------------- ack
\* req.model_dump() of an AckReq.
AckDump(r) == [job_id |-> r.job_id, status |-> r.status, stdout |-> r.stdout,
               stderr |-> r.stderr, took_ms |-> r.took_ms]

\* Mutant of PutResult: setdefault, the first Result of an identifier stays.
PutResultKeepFirst(d, r) ==
  IF r.job_id \in DOMAIN d THEN d ELSE DictSet(d, r.job_id, AckDump(r))

\* Mutant of PutResult: only the Result of an issued job is recorded.
PutResultIfIssued(d, r) ==
  IF r.job_id \in DOMAIN JOBS THEN DictSet(d, r.job_id, AckDump(r)) ELSE d

\* RESULTS[req.job_id] = req.model_dump()
PutResult(d, r) == DictSet(d, r.job_id, AckDump(r))

\* server.py:77-81
Ack(t) ==
  \E id \in JobIds, body \in AckBodies :
    LET d == [job_id |-> id, status |-> body[1], stdout |-> body[2],
              stderr |-> body[3], took_ms |-> body[4]]
    IN \E sig \in Signatures(DumpAckReq(d)) :
      LET r == [op |-> "ack", job_id |-> id, status |-> body[1],
                stdout |-> body[2], stderr |-> body[3], took_ms |-> body[4],
                x_signature |-> sig]
      IN /\ UNCHANGED <<config, JOBS, PENDING, now, nextId, locals,
                        appended, accepted, polled>>
         /\ IF verify(sig, DumpAckReq(r))
               \in {"UnicodeEncodeError", "TypeError"}
            THEN /\ Arrive(t, r, "done",
                           ServerError(verify(sig, DumpAckReq(r))))
                 /\ UNCHANGED <<RESULTS, ackLog>>
            ELSE IF verify(sig, DumpAckReq(r)) = "HTTPException"
            THEN /\ Arrive(t, r, "done", HTTPException(401, "Bad signature"))
                 /\ UNCHANGED <<RESULTS, ackLog>>
            ELSE /\ Len(ackLog) < MaxAcks
                 /\ RESULTS' = PutResult(RESULTS, r)
                 /\ ackLog' = Append(ackLog, r)
                 /\ Arrive(t, r, "done", Ok([ok |-> TRUE]))

\* ----------------------------------------------------------------- result
\* Mutant of GetResult: a zero-valued Result stands in for a missing one.
GetResultZero(d, id) ==
  IF id \in DOMAIN d THEN d[id]
  ELSE [job_id |-> id, status |-> "", stdout |-> "", stderr |-> "",
        took_ms |-> 0]

\* RESULTS.get(job_id, {"found": False})
GetResult(d, id) == IF id \in DOMAIN d THEN d[id] ELSE [found |-> FALSE]

\* server.py:84-86
Result(t) ==
  \E id \in JobIds, k \in AdminKeys :
    LET r == [op |-> "result", job_id |-> id, x_admin_key |-> k]
    IN /\ UNCHANGED <<config, stores, now, nextId, locals, appended,
                      accepted, polled, ackLog>>
       /\ IF ~require_admin(k)
          THEN Arrive(t, r, "done", HTTPException(401, "Bad admin key"))
          ELSE Arrive(t, r, "done", Ok(GetResult(RESULTS, id)))

\* ------------------------------------------------------------------ clock
\* time.time() moves on between two requests or two statements.
Tick ==
  /\ now < MaxTime
  /\ now' = now + 1
  /\ UNCHANGED <<config, stores, nextId, pc, req, locals, resp, appended,
                 accepted, polled, ackLog, ov, seen, hist>>

\* The handlers that touch JOBS and PENDING.
QueueNext ==
  \/ \E t \in Threads : EnqueueBegin(t)
  \/ \E t \in Threads : EnqueueStore(t)
  \/ \E t \in Threads : EnqueueAppend(t)
  \/ \E t \in Threads : PollBegin(t)
  \/ \E t \in Threads : PollIter(t)
  \/ \E t \in Threads : PollLookup(t)
  \/ \E t \in Threads : PollPop(t)
  \/ Tick

\* The handlers that touch RESULTS.
ResultNext ==
  \/ \E t \in Threads : Ack(t)
  \/ \E t \in Threads : Result(t)

Next == QueueNext \/ ResultNext

Spec == Init /\ [][Next]_vars

\* enqueue and poll never touch RESULTS, ack and result never touch JOBS or
\* PENDING, and neither pair reads the other's store, so the two halves are
\* explored apart.  QueueSpec runs enqueue and poll from the start.
QueueSpec == Init /\ [][QueueNext]_vars

\* What QueueSpec reaches with no request running, for one job enqueued for
\* machine "A" at most: the job not issued, queued, or claimed.
InitServing ==
  LET j == [id |-> 1, machine_id |-> "A", command |-> "rm",
            params |-> <<"f", "x">>, ts |-> 0]
  IN /\ SHARED_SECRET = "s3cret"
     /\ ADMIN_API_KEY \in {"", "k"}
     /\ ALLOWED_MACHINES \in {{}, {"A"}}
     /\ \E s \in { << << >>, << >>, 0, << >>, << >> >>,
                    << <<j>>, <<1>>, 1, <<1>>, << >> >>,
                    << <<j>>, << >>, 1, <<1>>,
                       << [machine_id |-> "A", job |-> j] >> >> } :
          /\ JOBS = s[1]
          /\ PENDING = s[2]
          /\ nextId = s[3]
          /\ appended = s[4]
          /\ accepted = s[4]
          /\ polled = s[5]
     /\ RESULTS = << >>
     /\ now = 0
     /\ pc = [t \in Threads |-> "idle"]
     /\ req = [t \in Threads |-> NoReq]
     /\ it = [t \in Threads |-> 0]
     /\ i = [t \in Threads |-> 0]
     /\ jid = [t \in Threads |-> 0]
     /\ job = [t \in Threads |-> None]
     /\ resp = [t \in Threads |-> None]
     /\ ackLog = << >>
     /\ ov = [t \in Threads |-> {}]
     /\ seen = [t \in Threads |-> 0]
     /\ hist = << >>

\* ResultSpec runs ack and result in each of these states.
ResultSpec == InitServing /\ [][ResultNext]_vars

\* The handlers behind the admin key: enqueue and result.
AdminNext ==
  \/ \E t \in Threads : EnqueueBegin(t)
  \/ \E t \in Threads : EnqueueStore(t)
  \/ \E t \in Threads : EnqueueAppend(t)
  \/ \E t \in Threads : Result(t)

\* The start with either secret, and what ack leaves behind before any
\* Enqueue: nothing, or, with a secret that encodes, the Result of one Ack
\* for an identifier that was never issued.
InitAcked ==
  LET a == [op |-> "ack", job_id |-> 0, status |-> "ok", stdout |-> "out",
            stderr |-> "", took_ms |-> 5,
            x_signature |->
              HmacSha256Hex("s3cret",
                            DumpAckReq([job_id |-> 0, status |-> "ok",
                                        stdout |-> "out", stderr |-> "",
                                        took_ms |-> 5]))]
  IN /\ SHARED_SECRET \in Secrets
     /\ ADMIN_API_KEY \in {"", "k"}
     /\ ALLOWED_MACHINES \in {{}, {"A"}}
     /\ JOBS = << >>
     /\ PENDING = << >>
     /\ \E s \in { << << >>, << >> >>,
                    << [x \in {0} |-> AckDump(a)], << a >> >> } :
          /\ RESULTS = s[1]
          /\ ackLog = s[2]
          /\ s[2] # << >> => SHARED_SECRET = "s3cret"
     /\ now = 0
     /\ nextId = 0
     /\ pc = [t \in Threads |-> "idle"]
     /\ req = [t \in Threads |-> NoReq]
     /\ it = [t \in Threads |-> 0]
     /\ i = [t \in Threads |-> 0]
     /\ jid = [t \in Threads |-> 0]
     /\ job = [t \in Threads |-> None]
     /\ resp = [t \in Threads |-> None]
     /\ appended = << >>
     /\ accepted = << >>
     /\ polled = << >>
     /\ ov = [t \in Threads |-> {}]
     /\ seen = [t \in Threads |-> 0]
     /\ hist = << >>

\* AdminSpec runs enqueue and result in each of these states.
AdminSpec == InitAcked /\ [][AdminNext]_vars

\* The handlers that call verify: poll and ack.
SignedNext ==
  \/ \E t \in Threads : PollBegin(t)
  \/ \E t \in Threads : PollIter(t)
  \/ \E t \in Threads : PollLookup(t)
  \/ \E t \in Threads : PollPop(t)
  \/ \E t \in Threads : Ack(t)

\* SignedSpec runs poll and ack in each of the states of InitServing.
SignedSpec == InitServing /\ [][SignedNext]_vars

\* ================================================================ claims
\* ------------------------------------------------------------- vocabulary
Range(s) == {s[k] : k \in DOMAIN s}
Count(s, x) == Cardinality({k \in DOMAIN s : s[k] = x})
Min(S) == CHOOSE k \in S : \A l \in S : k <= l
Max(S) == CHOOSE k \in S : \A l \in S : l <= k
IsPrefix(s, u) == Len(s) <= Len(u) /\ s = SubSeq(u, 1, Len(s))

\* Thread t has answered a correctly signed Poll of an allowed machine.
AnsweredPoll(t) ==
  /\ pc[t] = "done"
  /\ SignedPoll(req[t])
  /\ ~(ALLOWED_MACHINES # {} /\ req[t].machine_id \notin ALLOWED_MACHINES)

GotJob(out) == out.status = 200 /\ out.body.job # None
GotNone(out) == out = [status |-> 200, body |-> [job |-> None]]

\* A request arrives at thread t in this step (the threads running a handler
\* stand still and the responses sent earlier are dropped).
Arrival(t) ==
  /\ ~Active(t)
  /\ pc'[t] # "idle"
  /\ now' = now
  /\ \A u \in Threads \ {t} :
       IF Active(u) THEN pc'[u] = pc[u] ELSE pc'[u] = "idle"

\* The identifiers Poll returned for machine m, in return order, and the
\* identifiers appended for m, in append order.
PolledFor(m) ==
  LET Is(e) == e.machine_id = m
      s == SelectSeq(polled, Is)
  IN [k \in DOMAIN s |-> s[k].job.id]
AppendedFor(m) ==
  LET Is(x) == JOBS[x].machine_id = m
  IN SelectSeq(appended, Is)

\* C1: no job is claimed twice: an identifier Poll returned is returned by
\* no other Poll call.
C1_NoJobClaimedTwice ==
  \A a, b \in DOMAIN polled :
    a # b => polled[a].job.id # polled[b].job.id

\* C2: two overlapping, correctly signed Polls of an allowed machine m that
\* both arrived with exactly one job for m pending: one receives the job and
\* the other the plain "no job" response.
C2_ExclusiveClaim ==
  \A t, u \in Threads :
    ( /\ t # u
      /\ AnsweredPoll(t) /\ AnsweredPoll(u)
      /\ req[t].machine_id = req[u].machine_id
      /\ seen[t] = 1 /\ seen[u] = 1
      /\ u \in ov[t] )
    => \/ GotJob(resp[t]) /\ GotNone(resp[u])
       \/ GotJob(resp[u]) /\ GotNone(resp[t])

\* C3: every identifier Enqueue appended is in PENDING exactly once until a
\* Poll returns it, and is gone from PENDING only if a Poll returned it.
C3_NoEnqueueLostOrDuplicated ==
  \A k \in DOMAIN appended :
    LET x == appended[k]
        returned == \E e \in Range(polled) : e.job.id = x
    IN /\ Count(appended, x) = 1
       /\ Count(PENDING, x) = IF returned THEN 0 ELSE 1

\* C4: a Poll for m that claims a job returns the first entry of PENDING
\* whose job targets m and removes exactly that entry, the others staying in
\* their order.
C4_ClaimRemovesFirstMatch ==
  [][ \A t \in Threads :
        (pc[t] = "poll_pop" /\ pc'[t] = "done" /\ GotJob(resp'[t]))
        => LET F == EntriesFor(req[t].machine_id)
           IN /\ F # {}
              /\ resp'[t].body.job = JOBS[PENDING[Min(F)]]
              /\ PENDING' = SubSeq(PENDING, 1, Min(F) - 1)
                            \o SubSeq(PENDING, Min(F) + 1, Len(PENDING)) ]_vars

\* C5: for every machine m the jobs Poll(m) returns come out in the order
\* they were enqueued for m: the k-th job returned is the k-th appended.
C5_FifoPerMachine ==
  \A m \in Machines : IsPrefix(PolledFor(m), AppendedFor(m))

\* C6: every job Poll returns targets the machine that polled.
C6_PollReturnsOwnMachine ==
  /\ \A e \in Range(polled) : e.job.machine_id = e.machine_id
  /\ \A t \in Threads :
       (pc[t] = "done" /\ req[t].op = "poll" /\ GotJob(resp[t]))
       => resp[t].body.job.machine_id = req[t].machine_id

\* A Poll for one machine returned its job although the job of another
\* machine lay ahead of it, with another request running beside it.
C6_Witness ==
  \E t \in Threads :
    /\ pc[t] = "done" /\ req[t].op = "poll" /\ GotJob(resp[t])
    /\ ov[t] # {}
    /\ resp[t].body.job.id = 2
    /\ PENDING = <<1>>
    /\ JOBS[1].machine_id # req[t].machine_id

\* C7: an accepted Enqueue for machine m arriving with no job for m pending,
\* then at once a signed Poll for m, no other request beside or between
\* them: the Poll returns the job just enqueued (identifier, machine,
\* command, params, and the bytes Enqueue signed, timestamp included) and
\* PENDING no longer holds the identifier; a second Poll for m at once
\* returns no job.
C7_EnqueueThenPoll ==
  (Len(hist) >= 2 /\ hist[1].before = 0) =>
    LET e == hist[1]
        p == hist[2]
    IN /\ GotJob(p.resp)
       /\ p.resp.body.job.id = e.resp.body.job_id
       /\ p.resp.body.job.machine_id = e.req.machine_id
       /\ p.resp.body.job.command = e.req.command
       /\ p.resp.body.job.params = e.req.params
       /\ sign_payload(DumpJob(p.resp.body.job)) = e.resp.body.sig
       /\ p.resp.body.sig = e.resp.body.sig
       /\ e.resp.body.job_id \notin Range(p.after)
       /\ Len(hist) = 3
          => (GotNone(hist[3].resp) /\ hist[3].after = p.after)

\* Enqueue, Poll, Poll ran one after another while the job of another
\* machine lay ahead in PENDING, and the clock moved in between.
C7_Witness ==
  /\ Len(hist) = 3
  /\ hist[1].before = 0
  /\ hist[3].after # << >>
  /\ GotJob(hist[2].resp)
  /\ hist[2].resp.body.job.ts < now

\* C10: with a non-empty allow-list, an Enqueue that passes the admin check
\* and names a machine outside the list is answered 403 with JOBS, PENDING
\* and RESULTS as they were; with an empty allow-list no Enqueue is
\* answered 403.
C10_EnqueueAllowList ==
  [][ \A t \in Threads :
        (Arrival(t) /\ req'[t].op = "enqueue")
        => /\ ( /\ ALLOWED_MACHINES # {}
                /\ req'[t].machine_id \notin ALLOWED_MACHINES
                /\ (ADMIN_API_KEY = "" \/ req'[t].x_admin_key = ADMIN_API_KEY) )
              => /\ pc'[t] = "done"
                 /\ resp'[t] = [status |-> 403, detail |-> "Machine not allowed"]
                 /\ JOBS' = JOBS /\ PENDING' = PENDING /\ RESULTS' = RESULTS
           /\ (ALLOWED_MACHINES = {} /\ pc'[t] = "done")
              => resp'[t].status # 403 ]_vars

\* An Enqueue for a machine outside the list was answered 403 while a job
\* was pending.
C10_Witness ==
  \E t \in Threads :
    /\ pc[t] = "done" /\ req[t].op = "enqueue"
    /\ resp[t].status = 403
    /\ req[t].machine_id \notin ALLOWED_MACHINES
    /\ PENDING # << >>

\* The latest Ack request recorded for identifier id.
LastAck(id) ==
  ackLog[Max({k \in DOMAIN ackLog : ackLog[k].job_id = id})]
Acked(id) == \E k \in DOMAIN ackLog : ackLog[k].job_id = id

\* C8: a FetchResult that passes the admin check, for an identifier with an
\* accepted Ack, returns the fields of the latest such Ack and nothing else.
C8_FetchReturnsLatestAck ==
  \A t \in Threads :
    ( /\ pc[t] = "done" /\ req[t].op = "result"
      /\ (ADMIN_API_KEY = "" \/ req[t].x_admin_key = ADMIN_API_KEY)
      /\ Acked(req[t].job_id) )
    => LET a == LastAck(req[t].job_id)
       IN resp[t] = [status |-> 200,
                     body |-> [job_id |-> a.job_id, status |-> a.status,
                               stdout |-> a.stdout, stderr |-> a.stderr,
                               took_ms |-> a.took_ms]]

\* FetchResult answered after two Acks of one identifier with different
\* fields.
C8_Witness ==
  \E t \in Threads :
    /\ pc[t] = "done" /\ req[t].op = "result" /\ resp[t].status = 200
    /\ Len(ackLog) = 2
    /\ ackLog[1].job_id = req[t].job_id
    /\ ackLog[2].job_id = req[t].job_id
    /\ ackLog[1].status # ackLog[2].status

\* C9: a FetchResult that passes the admin check, for an identifier with no
\* accepted Ack, returns the not-found marker with status 200, whether or
\* not the job exists or was claimed, and changes none of the stores.
C9_FetchWithoutAck ==
  [][ \A t \in Threads :
        ( /\ Arrival(t) /\ req'[t].op = "result"
          /\ (ADMIN_API_KEY = "" \/ req'[t].x_admin_key = ADMIN_API_KEY)
          /\ ~Acked(req'[t].job_id) )
        => /\ pc'[t] = "done"
           /\ resp'[t] = [status |-> 200, body |-> [found |-> FALSE]]
           /\ JOBS' = JOBS /\ PENDING' = PENDING /\ RESULTS' = RESULTS ]_vars

\* FetchResult said not-found for a job that was claimed, while the result
\* of another identifier was on record.
C9_Witness ==
  \E t \in Threads :
    /\ pc[t] = "done" /\ req[t].op = "result"
    /\ resp[t] = [status |-> 200, body |-> [found |-> FALSE]]
    /\ req[t].job_id \in DOMAIN JOBS
    /\ req[t].job_id \notin Range(PENDING)
    /\ RESULTS # << >>

\* C11: with a non-empty allow-list, a correctly signed Poll of a machine
\* outside the list is answered, at once, with the very response a Poll
\* gets when nothing is pending, whatever PENDING holds, and JOBS, PENDING
\* and RESULTS stay as they were.
C11_PollOutsideAllowList ==
  [][ \A t \in Threads :
        ( /\ Arrival(t) /\ SignedPoll(req'[t])
          /\ ALLOWED_MACHINES # {}
          /\ req'[t].machine_id \notin ALLOWED_MACHINES )
        => /\ pc'[t] = "done"
           /\ GotNone(resp'[t])
           /\ JOBS' = JOBS /\ PENDING' = PENDING /\ RESULTS' = RESULTS ]_vars

\* A signed Poll of a machine outside the list was answered "no job" while
\* jobs were pending and another request was running.
C11_Witness ==
  \E t \in Threads :
    /\ pc[t] = "done" /\ SignedPoll(req[t]) /\ GotNone(resp[t])
    /\ ALLOWED_MACHINES # {}
    /\ req[t].machine_id \notin ALLOWED_MACHINES
    /\ Len(PENDING) = 2
    /\ ov[t] # {}

\* The bytes verify is given for a Poll or an Ack request.
DumpReq(r) == IF r.op = "poll" THEN DumpPollReq(r) ELSE DumpAckReq(r)

\* A Poll or Ack request whose X-Signature is not the tag of its body.
BadlySigned(r) ==
  r.op \in {"poll", "ack"} /\ r.x_signature # sign_payload(DumpReq(r))

\* C12: a Poll or Ack whose signature is not the tag of its body is answered
\* 401 "Bad signature" and JOBS, PENDING and RESULTS stay as they were: no
\* Result is written or replaced, no job is claimed.
C12_BadSignatureIs401 ==
  [][ \A t \in Threads :
        (Arrival(t) /\ BadlySigned(req'[t]))
        => /\ pc'[t] = "done"
           /\ resp'[t] = [status |-> 401, detail |-> "Bad signature"]
           /\ JOBS' = JOBS /\ PENDING' = PENDING /\ RESULTS' = RESULTS ]_vars

\* C13: with an admin key configured, an Enqueue or FetchResult whose
\* X-Admin-Key is absent or another value is answered 401 "Bad admin key",
\* issues no identifier, leaves JOBS, PENDING and RESULTS as they were and
\* carries no Result; with no admin key configured neither is answered 401
\* whatever key it carries, and FetchResult returns what RESULTS holds.
C13_AdminGate ==
  [][ \A t \in Threads :
        (Arrival(t) /\ req'[t].op \in {"enqueue", "result"})
        => /\ (ADMIN_API_KEY # "" /\ req'[t].x_admin_key # ADMIN_API_KEY)
              => /\ pc'[t] = "done"
                 /\ resp'[t] = [status |-> 401, detail |-> "Bad admin key"]
                 /\ nextId' = nextId
                 /\ JOBS' = JOBS /\ PENDING' = PENDING /\ RESULTS' = RESULTS
           /\ (ADMIN_API_KEY = "" /\ pc'[t] = "done")
              => /\ resp'[t].status # 401
                 /\ req'[t].op = "result"
                    => resp'[t] = Ok(GetResult(RESULTS, req'[t].job_id)) ]_vars

\* A FetchResult without the admin key was answered 401 although the Result
\* of its identifier was on record, while a job was pending.
C13_Witness ==
  \E t \in Threads :
    /\ pc[t] = "done" /\ req[t].op = "result"
    /\ req[t].x_admin_key = "None"
    /\ resp[t].status = 401
    /\ req[t].job_id \in DOMAIN RESULTS
    /\ PENDING # << >>

\* C14: a correctly signed Ack is answered ok and leaves RESULTS holding
\* exactly its fields under its identifier, replacing what was there and
\* touching no other identifier, whether the job was never issued, is
\* queued or was claimed; no Ack, signed or not, changes JOBS or PENDING.
C14_AckRecords ==
  [][ \A t \in Threads :
        (Arrival(t) /\ req'[t].op = "ack")
        => /\ JOBS' = JOBS /\ PENDING' = PENDING
           /\ req'[t].x_signature = sign_payload(DumpAckReq(req'[t]))
              => /\ pc'[t] = "done"
                 /\ resp'[t] = [status |-> 200, body |-> [ok |-> TRUE]]
                 /\ DOMAIN RESULTS' = DOMAIN RESULTS \cup {req'[t].job_id}
                 /\ RESULTS'[req'[t].job_id] =
                      [job_id |-> req'[t].job_id, status |-> req'[t].status,
                       stdout |-> req'[t].stdout, stderr |-> req'[t].stderr,
                       took_ms |-> req'[t].took_ms]
                 /\ \A x \in DOMAIN RESULTS \ {req'[t].job_id} :
                      RESULTS'[x] = RESULTS[x] ]_vars

\* A second signed Ack replaced the Result of an identifier that was never
\* issued, while the queued job's own Result was not on record.
C14_Witness ==
  \E t \in Threads :
    /\ pc[t] = "done" /\ req[t].op = "ack" /\ resp[t].status = 200
    /\ req[t].job_id \notin DOMAIN JOBS
    /\ PENDING # << >>
    /\ Len(ackLog) = 2
    /\ ackLog[1].job_id = req[t].job_id
    /\ ackLog[2] = req[t]
    /\ ackLog[1].status # ackLog[2].status
    /\ RESULTS[req[t].job_id].status = req[t].status

\* C15: the identifiers that successful Enqueue calls returned are pairwise
\* different and each is a key of JOBS, and, whenever no Enqueue is between
\* building its job and sending its response, JOBS holds exactly as many
\* jobs as Enqueue calls have succeeded.
C15_OneJobPerSuccessfulEnqueue ==
  /\ \A a, b \in DOMAIN accepted : a # b => accepted[a] # accepted[b]
  /\ Range(accepted) \subseteq DOMAIN JOBS
  /\ (\A t \in Threads : pc[t] \notin {"enq_store", "enq_append"})
     => Cardinality(DOMAIN JOBS) = Len(accepted)

\* C16: for the body bytes b of every Poll or Ack request, verify passes the
\* tag sign_payload gives for b, and reports false (the 401) for every other
\* X-Signature sent with b, a tag with one byte replaced among them, and for
\* that tag sent with the different bytes of another request.
C16_VerifyExactTag ==
  \A t \in Threads :
    req[t].op \in {"poll", "ack"} =>
      LET b == DumpReq(req[t])
      IN /\ verify(sign_payload(b), b) = "pass"
         /\ req[t].x_signature # sign_payload(b)
            => verify(req[t].x_signature, b) = "HTTPException"
         /\ \A u \in Threads :
              (req[u].op \in {"poll", "ack"} /\ DumpReq(req[u]) # b)
              => verify(sign_payload(b), DumpReq(req[u])) = "HTTPException"

\* C17: in every state, those inside a running Enqueue included, every
\* identifier in PENDING is a key of JOBS, and so is every identifier that
\* was ever appended; a job a Poll returned is still in JOBS, unchanged.
C17_PendingRefersToStoredJobs ==
  /\ \A k \in DOMAIN PENDING : PENDING[k] \in DOMAIN JOBS
  /\ \A x \in Range(appended) : x \in DOMAIN JOBS
  /\ \A e \in Range(polled) :
       e.job.id \in DOMAIN JOBS /\ JOBS[e.job.id] = e.job

\* An Enqueue has stored its job and not yet appended the identifier, while
\* a Poll scans PENDING and an earlier job, claimed, is still in JOBS.
C17_Witness ==
  \E t, u \in Threads :
    /\ pc[t] = "enq_append"
    /\ jid[t] \in DOMAIN JOBS
    /\ jid[t] \notin Range(PENDING)
    /\ pc[u] = "poll_iter"
    /\ polled # << >>
    /\ polled[1].job.id \in DOMAIN JOBS
    /\ polled[1].job.id \notin Range(PENDING)

\* C18: a correctly signed Poll of an allowed machine m that ends while
\* PENDING holds an entry for m returns a job, whatever entries of other
\* machines lie ahead and whatever other requests run beside it: it answers
\* "no job" only when PENDING holds no entry for m.
C18_NoneOnlyWithoutEntry ==
  [][ \A t \in Threads :
        ( /\ pc[t] \in {"poll_iter", "poll_lookup", "poll_pop"}
          /\ pc'[t] = "done"
          /\ EntriesFor(req[t].machine_id) # {} )
        => GotJob(resp'[t]) ]_vars

\* C19: an Enqueue or Ack that ends in a failure (any status but 200) has
\* changed nothing: the step that sends the failure leaves JOBS, PENDING and
\* RESULTS as they were, and the job of a failed Enqueue is neither in JOBS
\* nor in PENDING.
C19_FailedCallLeavesNoTrace ==
  [][ \A t \in Threads :
        ( /\ Arrival(t) \/ Active(t)
          /\ pc'[t] = "done"
          /\ req'[t].op \in {"enqueue", "ack"}
          /\ resp'[t].status # 200 )
        => /\ JOBS' = JOBS /\ PENDING' = PENDING /\ RESULTS' = RESULTS
           /\ Active(t)
              => /\ jid[t] \notin DOMAIN JOBS'
                 /\ jid[t] \notin Range(PENDING') ]_vars

\* C20: a correctly signed Poll ends with a job or with the plain "no job"
\* response in every interleaving: its lookup finds the identifier in JOBS,
\* and its pop finds, at the position it matched, the entry it matched.
C20_PollEndsNormally ==
  [][ \A t \in Threads :
        /\ (SignedPoll(req'[t]) /\ pc'[t] = "done" /\ (Arrival(t) \/ Active(t)))
           => (GotJob(resp'[t]) \/ GotNone(resp'[t]))
        /\ (pc[t] = "poll_lookup" /\ pc'[t] # "poll_lookup")
           => jid[t] \in DOMAIN JOBS
        /\ (pc[t] = "poll_pop" /\ pc'[t] = "done")
           => (i[t] < Len(PENDING) /\ PENDING[i[t] + 1] = jid[t]) ]_vars

====
